---- MODULE Spec2Model ----
(***************************************************************************)
(* django-raster-aggregation: the ValueCountResult cache and its           *)
(* invalidation (models.py), the shapefile ingestion of an                 *)
(* AggregationLayer (parser.py) and the vector tile view (views.py).       *)
(*                                                                         *)
(* Three specifications share the tables:                                  *)
(*   SpecCache   statistics requests, saves and the two invalidations      *)
(*   SpecIngest  ingestion runs (parse) of aggregation layers              *)
(*   SpecTiles   zoom-range administration and tile requests               *)
(***************************************************************************)
EXTENDS Integers, Sequences, FiniteSets, TLC

\* ------------------------------------------------------------------ bounds
NumProcs == 2           \* concurrent request / save workers
MaxResultId == 2        \* primary keys the ValueCountResult sequence hands out
NumRasterLayers == 2    \* raster layers 1..NumRasterLayers exist
NumLegends == 2         \* legends 1..NumLegends exist
NumRuns == 2            \* ingestion runs (parse tasks) of a behaviour
MaxFeatures == 2        \* features of a shapefile
MaxZoom == 2            \* zoom levels 0..MaxZoom of the tile pyramid
MaxZoomRangeId == 2     \* primary keys the zoom-range sequence hands out
MaxTolerance == 1       \* simplification tolerances 0..MaxTolerance (grid levels)
MaxAreaId == 4          \* primary keys an area saved outside a parse run may draw

VARIABLES
    areas,          \* AggregationArea table: set of rows
    results,        \* ValueCountResult table: set of rows, each with its M2M set
    nextResultId,   \* next primary key of the ValueCountResult table
    proc,           \* per worker: position in ValueCountResult.save and its instance
    inputs,         \* the statistics requests clients send in this behaviour
    layers,         \* AggregationLayer table: id -> stored row
    shapefile,      \* the zipped shapefile stored for aggregation layer 1
    run,            \* per ingestion run: position in parse() and its instance
    nextAreaId,     \* next primary key of the AggregationArea table
    zoomranges,     \* AggregationLayerZoomRange table: set of rows
    nextZoomRangeId, \* next primary key of the zoom-range table
    tilereq,        \* the tile request a client sends (URL arguments)
    last            \* history: the operation that produced the current state

cacheVars == <<results, nextResultId, proc, inputs>>
ingestVars == <<layers, shapefile, run, nextAreaId>>
tileVars == <<zoomranges, nextZoomRangeId, tilereq>>
vars == <<areas, cacheVars, ingestVars, tileVars, last>>

Procs == 1..NumProcs
RasterLayers == 1..NumRasterLayers
Legends == 1..NumLegends
Runs == 1..NumRuns

Range(s) == {s[i] : i \in DOMAIN s}

\* ------------------------------------------------------------- conversions

\* int(s) as the ORM applies it to a key given as text; -1 stands for ValueError.
StrToId(s) ==
    IF \E n \in 0..9 : ToString(n) = s
    THEN CHOOSE n \in 0..9 : ToString(n) = s
    ELSE -1

\* {k: str(v) for k, v in aggregation_result.items()}
StrValue(h) == [k \in DOMAIN h |-> ToString(h[k])]

\* 'a=1,b=2' of the query string as the hstore mapping alias -> layer id (text).
LayerDict(pairs) ==
    [a \in {kv[1] : kv \in Range(pairs)} |->
        (CHOOSE kv \in Range(pairs) : kv[1] = a)[2]]

\* ------------------------------------------------------------------ inputs

EmptyHist == [k \in {} |-> 0]
\* What Aggregator.value_count() may return (external library): a histogram.
AggregatorResults == {EmptyHist, ("2" :> 5) @@ ("4" :> 7)}

JsonGrouping == "[{\"name\": \"g\", \"expression\": \"x >= 2\"}]"

BaseRequest ==
    [area |-> 1, formula |-> "a*b", layers |-> << <<"a", "1">>, <<"b", "2">> >>,
     zoom |-> 11, units |-> "", grouping |-> "auto",
     given |-> {"formula", "layers"}]

\* The base request, the same request with its aliases in the other order,
\* requests that differ from the base in exactly one fingerprint component, and
\* requests whose query string lacks 'formula', 'layers' or both (given is the
\* set of required parameters present in request.GET).
RequestInputs ==
    { BaseRequest,
      [BaseRequest EXCEPT !.layers = << <<"b", "2">>, <<"a", "1">> >>],
      [BaseRequest EXCEPT !.area = 2],
      [BaseRequest EXCEPT !.formula = "a+b"],
      [BaseRequest EXCEPT !.layers = << <<"a", "1">>, <<"b", "3">> >>],
      [BaseRequest EXCEPT !.zoom = 4],
      [BaseRequest EXCEPT !.units = "acres"],
      [BaseRequest EXCEPT !.grouping = "1"],
      [BaseRequest EXCEPT !.grouping = JsonGrouping],
      [BaseRequest EXCEPT !.given = {"layers"}],
      [BaseRequest EXCEPT !.given = {"formula"}],
      [BaseRequest EXCEPT !.given = {}] }

\* Mappings an overwrite may put into a loaded instance before saving it again.
OverwriteMaps ==
    { LayerDict(<< <<"a", "2">>, <<"b", "2">> >>) }

\* ---------------------------------------------------------- ValueCountResult

NoValue == "unset"
NoObj == [id |-> -1]
NoReq == [area |-> 0]
Idle == [pc |-> "idle", obj |-> NoObj, req |-> NoReq, todo |-> {}]

\* A new, unsaved instance (pk None is 0) built from a request. The value of an
\* instance entering save() is never read before save() replaces it.
NewInstance(q) ==
    [id |-> 0, aggregationarea |-> q.area, formula |-> q.formula,
     layer_names |-> LayerDict(q.layers), zoom |-> q.zoom, units |-> q.units,
     grouping |-> q.grouping, value |-> NoValue]

UniqueKeyWithoutZoom(o) ==
    <<o.aggregationarea, o.formula, o.layer_names, o.units, o.grouping>>

\* unique_together of ValueCountResult.Meta
UniqueKey(o) ==
    <<o.aggregationarea, o.formula, o.layer_names, o.zoom, o.units, o.grouping>>

RowOf(o, id, deps) ==
    [id |-> id, aggregationarea |-> o.aggregationarea, formula |-> o.formula,
     layer_names |-> o.layer_names, zoom |-> o.zoom, units |-> o.units,
     grouping |-> o.grouping, value |-> o.value, rasterlayers |-> deps]

InstanceOf(r) ==
    [id |-> r.id, aggregationarea |-> r.aggregationarea, formula |-> r.formula,
     layer_names |-> r.layer_names, zoom |-> r.zoom, units |-> r.units,
     grouping |-> r.grouping, value |-> NoValue]

AreaIds == {a.id : a \in areas}

NoRun == [pc |-> "new"]

\* Workers that hold an instance not yet inserted: each will draw a primary key.
PendingInserts ==
    {p \in Procs : proc[p].pc = "computing" /\ proc[p].obj.id = 0}

\* save(), entered: the Aggregator is built from the instance's fields and
\* value_count() starts.
BeginSave(p, o, q) ==
    proc' = [proc EXCEPT ![p] = [pc |-> "computing", obj |-> o, req |-> q, todo |-> {}]]

\* The cache lookup of a statistics request: a stored row with the request's
\* fingerprint is returned as it is; otherwise a new instance is saved.
Lookup(p, q) ==
    /\ proc[p].pc = "idle"
    /\ LET o == NewInstance(q)
           hits == {r \in results : UniqueKey(r) = UniqueKey(o)}
       IN IF hits # {}
          THEN /\ last' = [op |-> "hit", req |-> q,
                           value |-> (CHOOSE r \in hits : TRUE).value]
               /\ UNCHANGED proc
          ELSE /\ nextResultId + Cardinality(PendingInserts) <= MaxResultId
               /\ BeginSave(p, o, q)
               /\ last' = [op |-> "step"]
    /\ UNCHANGED <<areas, results, nextResultId, inputs, ingestVars, tileVars>>

\* AggregationAreaValueViewSet.initial: the detail of the MissingQueryParameter it
\* raises, "" when it raises nothing and hands over to the view.
initialLayersFirst(q) ==
    IF "layers" \notin q.given THEN "Missing query parameter: layers"
    ELSE IF "formula" \notin q.given THEN "Missing query parameter: formula"
    ELSE ""

initial(q) ==
    IF "formula" \notin q.given THEN "Missing query parameter: formula"
    ELSE IF "layers" \notin q.given THEN "Missing query parameter: layers"
    ELSE ""

\* A statistics request handled by a worker: initial() runs before the queryset
\* is evaluated; only a request it lets through reaches the lookup.
StatisticsRequest(p, q) ==
    IF initial(q) # ""
    THEN /\ proc[p].pc = "idle"
         /\ last' = [op |-> "rejected", req |-> q, error |-> "MissingQueryParameter",
                     status |-> 500, detail |-> initial(q)]
         /\ UNCHANGED <<areas, cacheVars, ingestVars, tileVars>>
    ELSE Lookup(p, q)

\* A caller loads a stored result, sets its layer-alias mapping and saves it.
Overwrite(p, r, ln) ==
    /\ proc[p].pc = "idle"
    /\ r \in results
    /\ BeginSave(p, [InstanceOf(r) EXCEPT !.layer_names = ln], NoReq)
    /\ last' = [op |-> "step"]
    /\ UNCHANGED <<areas, results, nextResultId, inputs, ingestVars, tileVars>>

\* The worker's state after the row write: the loop over layer_names.values().
\* Of the instance the loop reads the primary key and the mapping only.
AfterWrite(p, o) ==
    IF DOMAIN o.layer_names = {}
    THEN Idle
    ELSE [pc |-> "add", obj |-> [id |-> o.id, layer_names |-> o.layer_names],
          req |-> proc[p].req, todo |-> DOMAIN o.layer_names]

SavedOrStep(o, done) ==
    IF done THEN [op |-> "saved", id |-> o.id, layer_names |-> o.layer_names]
    ELSE [op |-> "step"]

\* save(): value_count() returns h, the value is stored as text and super().save()
\* writes the row. An instance without primary key is inserted; one with a primary
\* key is updated, or inserted under that key when the row is gone. The area
\* foreign key is enforced.
WriteRowUnchecked(p, h) ==
    /\ proc[p].pc = "computing"
    /\ LET o == [proc[p].obj EXCEPT !.value = StrValue(h)]
           stored == {r \in results : r.id = o.id}
       IN IF o.aggregationarea \notin AreaIds
          THEN /\ proc' = [proc EXCEPT ![p] = Idle]
               /\ last' = [op |-> "save_failed", error |-> "IntegrityError"]
               /\ UNCHANGED <<results, nextResultId>>
          ELSE IF o.id = 0
          THEN LET n == [o EXCEPT !.id = nextResultId]
               IN /\ results' = results \cup {RowOf(n, n.id, {})}
                  /\ nextResultId' = nextResultId + 1
                  /\ proc' = [proc EXCEPT ![p] = AfterWrite(p, n)]
                  /\ last' = SavedOrStep(n, DOMAIN n.layer_names = {})
          ELSE /\ results' = (results \ stored)
                     \cup {RowOf(o, o.id, UNION {r.rasterlayers : r \in stored})}
               /\ nextResultId' = nextResultId
               /\ proc' = [proc EXCEPT ![p] = AfterWrite(p, o)]
               /\ last' = SavedOrStep(o, DOMAIN o.layer_names = {})
    /\ UNCHANGED <<areas, inputs, ingestVars, tileVars>>

\* save() up to and including super().save(), with the unique constraint of the
\* table: a second row with the same key is refused (IntegrityError).
WriteRow(p, h) ==
    /\ proc[p].pc = "computing"
    /\ LET o == proc[p].obj
       IN IF \E r \in results : r.id # o.id /\ UniqueKey(r) = UniqueKey(o)
          THEN /\ proc' = [proc EXCEPT ![p] = Idle]
               /\ last' = [op |-> "save_failed", error |-> "IntegrityError",
                           constraint |-> "unique_together"]
               /\ UNCHANGED <<areas, results, nextResultId, inputs, ingestVars, tileVars>>
          ELSE WriteRowUnchecked(p, h)

\* save(): one iteration of the loop: RasterLayer.objects.get(id=layer_id), then
\* self.rasterlayers.add(lyr). The save has succeeded after the last iteration.
AddLayer(p, a) ==
    /\ proc[p].pc = "add"
    /\ a \in proc[p].todo
    /\ LET o == proc[p].obj
           lyr == StrToId(o.layer_names[a])
           left == proc[p].todo \ {a}
       IN IF lyr \notin RasterLayers
          THEN /\ proc' = [proc EXCEPT ![p] = Idle]
               /\ last' = [op |-> "save_failed", error |-> "DoesNotExist"]
               /\ UNCHANGED results
          ELSE IF ~ \E r \in results : r.id = o.id
          THEN /\ proc' = [proc EXCEPT ![p] = Idle]
               /\ last' = [op |-> "save_failed", error |-> "IntegrityError"]
               /\ UNCHANGED results
          ELSE /\ results' = {IF r.id = o.id
                              THEN [r EXCEPT !.rasterlayers = @ \cup {lyr}]
                              ELSE r : r \in results}
               /\ proc' = [proc EXCEPT ![p] =
                              IF left = {} THEN Idle ELSE [proc[p] EXCEPT !.todo = left]]
               /\ last' = SavedOrStep(o, left = {})
    /\ UNCHANGED <<areas, nextResultId, inputs, ingestVars, tileVars>>

RasterLayerChangedByAlias(L) ==
    /\ results' = {r \in results :
                      L \notin {StrToId(r.layer_names[a]) : a \in DOMAIN r.layer_names}}
    /\ last' = IF results' = results THEN [op |-> "step"]
                ELSE [op |-> "rasterlayer_changed", who |-> L]
    /\ UNCHANGED <<areas, nextResultId, proc, inputs, ingestVars, tileVars>>

\* Receiver of rasterlayers_parser_ended: filter(rasterlayers=instance).delete()
remove_aggregation_results_after_rasterlayer_change(L) ==
    /\ results' = {r \in results : L \notin r.rasterlayers}
    /\ last' = IF results' = results THEN [op |-> "step"]
                ELSE [op |-> "rasterlayer_changed", who |-> L]
    /\ UNCHANGED <<areas, nextResultId, proc, inputs, ingestVars, tileVars>>

LegendChangedById(G) ==
    /\ results' = {r \in results : r.id # G}
    /\ last' = IF results' = results THEN [op |-> "step"]
                ELSE [op |-> "legend_saved", who |-> G]
    /\ UNCHANGED <<areas, nextResultId, proc, inputs, ingestVars, tileVars>>

\* Receiver of Legend post_save: filter(grouping=instance.id).delete(); the id is
\* compared as text, the type of the grouping column.
remove_aggregation_results_after_legend_change(G) ==
    /\ results' = {r \in results : r.grouping # ToString(G)}
    /\ last' = IF results' = results THEN [op |-> "step"]
                ELSE [op |-> "legend_saved", who |-> G]
    /\ UNCHANGED <<areas, nextResultId, proc, inputs, ingestVars, tileVars>>

\* ----------------------------------------------------------- AggregationArea
\* Geometries are sets of cells <<column, row>> of the grid of the highest zoom.

RECURSIVE Pow2(_)
Pow2(n) == IF n = 0 THEN 1 ELSE 2 * Pow2(n - 1)

Tolerances == 0..MaxTolerance
\* simplification_tolerance = models.FloatField(default=0.01): the finest level
DefaultTolerance == 0

\* geom_simplified of an instance the caller has not set (null)
NullGeom == [type |-> "None", cells |-> {}]

\* self.geom.simplify(tolerance, preserve_topology=True): detail finer than the
\* tolerance is merged (cells snap to the corner of their block of side
\* 2^tolerance); what is left may be a single polygon.
simplify(geom, tolerance) ==
    LET side == Pow2(tolerance)
        cells == {<<(c[1] \div side) * side, (c[2] \div side) * side>> : c \in geom}
    IN [type |-> IF Cardinality(cells) = 1 THEN "Polygon" ELSE "MultiPolygon",
        cells |-> cells]

\* convert_to_multipolygon: a polygon is wrapped into a multipolygon.
convert_to_multipolygon(g) == [g EXCEPT !.type = "MultiPolygon"]

\* AggregationArea.save of instance a whose layer object has the given tolerance:
\* the row that super().save() writes.
SavedAreaKeepingGiven(a, tolerance) ==
    IF a.geom_simplified # NullGeom THEN a
    ELSE [a EXCEPT !.geom_simplified =
             convert_to_multipolygon(simplify(a.geom, tolerance))]

SavedArea(a, tolerance) ==
    [a EXCEPT !.geom_simplified = convert_to_multipolygon(simplify(a.geom, tolerance))]

FixtureAreas ==
    { SavedArea([id |-> 1, aggregationlayer |-> 1, name |-> "Coverall",
                 geom |-> {<<0, 0>>, <<1, 0>>, <<0, 1>>, <<1, 1>>},
                 geom_simplified |-> NullGeom], DefaultTolerance),
      SavedArea([id |-> 2, aggregationlayer |-> 1, name |-> "St Petersburg",
                 geom |-> {<<1, 1>>, <<2, 1>>},
                 geom_simplified |-> NullGeom], DefaultTolerance),
      SavedArea([id |-> 3, aggregationlayer |-> 2, name |-> "Other",
                 geom |-> {<<0, 0>>},
                 geom_simplified |-> NullGeom], DefaultTolerance) }

NoTile == [group |-> 0, x |-> 0, y |-> 0, z |-> 0, format |-> ""]

FixtureLayers ==
    [l \in {1, 2} |-> [id |-> l, name_column |-> "name", parse_log |-> <<>>,
                       simplification_tolerance |-> DefaultTolerance]]

\* The tables the ingestion leaves alone while the cache is exercised.
IngestIdle ==
    /\ layers = FixtureLayers
    /\ shapefile = [zip |-> "ok", feats |-> <<>>]
    /\ run = [r \in Runs |-> NoRun]
    /\ nextAreaId = 4
    /\ zoomranges = {}
    /\ nextZoomRangeId = 1
    /\ tilereq = NoTile

InitCache ==
    /\ areas = FixtureAreas
    /\ results = {}
    /\ nextResultId = 1
    /\ proc = [p \in Procs |-> Idle]
    /\ inputs \in {{BaseRequest, q} : q \in RequestInputs \ {BaseRequest}}
    /\ IngestIdle
    /\ last = [op |-> "init"]

NextCache ==
    \/ \E p \in Procs, q \in inputs : StatisticsRequest(p, q)
    \/ \E p \in Procs, r \in results, ln \in OverwriteMaps : Overwrite(p, r, ln)
    \/ \E p \in Procs, h \in AggregatorResults : WriteRow(p, h)
    \/ \E p \in Procs, a \in {"a", "b"} : AddLayer(p, a)
    \/ \E L \in RasterLayers : remove_aggregation_results_after_rasterlayer_change(L)
    \/ \E G \in Legends : remove_aggregation_results_after_legend_change(G)

SpecCache == InitCache /\ [][NextCache]_vars


\* ---------------------------------------------------------------- ingestion
\* AggregationDataParser.parse, run as a task on an AggregationLayer instance.

\* What is wrong with the zipped shapefile as a whole, and with each feature.
FileKinds == {"ok", "badzip", "nolayer", "nonamecol", "nosrs"}
FeatureKinds == {"ok", "transform", "convert", "invalid", "empty", "create"}

SeqsUpTo(S, n) == UNION {[1..k -> S] : k \in 0..n}

Shapefiles ==
    {[zip |-> "ok", feats |-> f] : f \in SeqsUpTo(FeatureKinds, MaxFeatures)}
        \cup {[zip |-> z, feats |-> <<"ok">>] : z \in FileKinds \ {"ok"}}

\* '[{0}] '.format(datetime.datetime.now().strftime('%Y-%m-%d %T'))
Now == "[now] "

StartedText == "Started parsing Aggregation Layer 1"
FinishedText == "Finished parsing Aggregation Layer 1"
DownloadError == "Error: Could not download file, aborted parsing"
ZipError == "Error: Could not open zipfile, aborted parsing"
LayerError == "Error: Failed to extract layer from shapefile, aborted parsing"
NameColumnError ==
    "Error: Name column \"name\" not found, aborted parsing. Available columns: []"
SrsError == "Error: Layer srs not specified, aborted parsing"

WarningText(kind, fid) ==
    CASE kind = "transform" ->
            "Warning: Failed to transform feature fid " \o ToString(fid) \o "\n"
      [] kind = "convert" ->
            "Warning: Failed to convert feature fid " \o ToString(fid)
                \o " to multipolygon\n"
      [] kind = "invalid" ->
            "Warning: Found invalid geometry for feature fid " \o ToString(fid) \o "\n"
      [] kind = "empty" ->
            "Warning: Failed to convert feature fid " \o ToString(fid)
                \o " to valid geometry\n"
      [] kind = "create" ->
            "Warning: Failed to create AggregationArea for feature fid "
                \o ToString(fid) \o "\n"

\* feat.get(self.name_column)
FeatureName(fid) == "feature " \o ToString(fid)

\* The multipolygon a valid feature converts to.
FeatureGeom(fid) == {<<fid, fid>>}

\* AggregationLayer.log without its save(): the instance after the message is
\* written to its parse_log, each entry one stamped line.
logResetAlways(self, msg, reset) == [self EXCEPT !.parse_log = <<Now \o msg>>]

log(self, msg, reset) ==
    [self EXCEPT !.parse_log = IF reset THEN <<Now \o msg>> ELSE Append(@, Now \o msg)]

\* self.save() of an AggregationLayer instance: every field of the row is written.
SaveLayer(self) == layers' = [layers EXCEPT ![self.id] = self]

\* The task receives its AggregationLayer instance: a copy of the stored row.
LoadLayer(r) ==
    /\ run[r].pc = "new"
    /\ run' = [run EXCEPT ![r] =
                  [pc |-> "loaded", self |-> layers[1], tmpdir |-> FALSE,
                   download |-> "", i |-> 0, created |-> {},
                   base |-> Len(layers[1].parse_log)]]
    /\ last' = [op |-> "step"]
    /\ UNCHANGED <<areas, cacheVars, layers, shapefile, nextAreaId, tileVars>>

\* parse(): the 'Started parsing' entry and tempfile.mkdtemp().
StartParse(r) ==
    /\ run[r].pc = "loaded"
    /\ LET s1 == log(run[r].self, StartedText, FALSE)
       IN /\ SaveLayer(s1)
          /\ run' = [run EXCEPT ![r].self = s1, ![r].tmpdir = TRUE, ![r].pc = "download"]
    /\ last' = [op |-> "step"]
    /\ UNCHANGED <<areas, cacheVars, shapefile, nextAreaId, tileVars>>

\* An abort branch of parse(): shutil.rmtree(tmpdir) where the branch has it, the
\* error entry, return.
Abort(r, msg, rmtree) ==
    LET s1 == log(run[r].self, msg, FALSE)
    IN /\ SaveLayer(s1)
       /\ run' = [run EXCEPT ![r].self = s1, ![r].pc = "done",
                             ![r].tmpdir = IF rmtree THEN FALSE ELSE @]
       /\ last' = [op |-> "aborted", run |-> r]

Advance(r, pc) ==
    /\ run' = [run EXCEPT ![r].pc = pc]
    /\ last' = [op |-> "step"]
    /\ UNCHANGED layers

\* parse(): the shapefile is read from storage into the temporary directory.
Download(r, ok) ==
    /\ run[r].pc = "download"
    /\ IF ok
       THEN /\ run' = [run EXCEPT ![r].pc = "unzip", ![r].download = "ok"]
            /\ last' = [op |-> "step"]
            /\ UNCHANGED layers
       ELSE LET s1 == log(run[r].self, DownloadError, FALSE)
            IN /\ SaveLayer(s1)
               /\ run' = [run EXCEPT ![r].self = s1, ![r].pc = "done",
                                     ![r].tmpdir = FALSE, ![r].download = "failed"]
               /\ last' = [op |-> "aborted", run |-> r]
    /\ UNCHANGED <<areas, cacheVars, shapefile, nextAreaId, tileVars>>

\* parse(): zipfile.ZipFile(shapefilepath).extractall(tmpdir)
UnzipFallThrough(r) ==
    /\ run[r].pc = "unzip"
    /\ IF shapefile.zip = "badzip"
       THEN LET s1 == log(run[r].self, ZipError, FALSE)
            IN /\ SaveLayer(s1)
               /\ run' = [run EXCEPT ![r].self = s1, ![r].pc = "datasource",
                                     ![r].tmpdir = FALSE]
               /\ last' = [op |-> "step"]
       ELSE Advance(r, "datasource")
    /\ UNCHANGED <<areas, cacheVars, shapefile, nextAreaId, tileVars>>

Unzip(r) ==
    /\ run[r].pc = "unzip"
    /\ IF shapefile.zip = "badzip"
       THEN Abort(r, ZipError, TRUE)
       ELSE Advance(r, "datasource")
    /\ UNCHANGED <<areas, cacheVars, shapefile, nextAreaId, tileVars>>

\* parse(): ds = DataSource(tmpdir); lyr = ds[0]
OpenDataSource(r) ==
    /\ run[r].pc = "datasource"
    /\ IF shapefile.zip = "nolayer"
       THEN Abort(r, LayerError, TRUE)
       ELSE Advance(r, "namecolumn")
    /\ UNCHANGED <<areas, cacheVars, shapefile, nextAreaId, tileVars>>

\* parse(): the name column must be among lyr.fields; this branch returns without
\* removing the temporary directory.
CheckNameColumn(r) ==
    /\ run[r].pc = "namecolumn"
    /\ IF shapefile.zip = "nonamecol"
       THEN Abort(r, NameColumnError, FALSE)
       ELSE Advance(r, "srs")
    /\ UNCHANGED <<areas, cacheVars, shapefile, nextAreaId, tileVars>>

\* parse(): ct = CoordTransform(lyr.srs, SpatialReference(WEB_MERCATOR_SRID))
SetupTransformFallThrough(r) ==
    /\ run[r].pc = "srs"
    /\ IF shapefile.zip = "nosrs"
       THEN LET s1 == log(run[r].self, SrsError, FALSE)
            IN /\ SaveLayer(s1)
               /\ run' = [run EXCEPT ![r].self = s1, ![r].pc = "delete",
                                     ![r].tmpdir = FALSE]
               /\ last' = [op |-> "step"]
       ELSE Advance(r, "delete")
    /\ UNCHANGED <<areas, cacheVars, shapefile, nextAreaId, tileVars>>

SetupTransform(r) ==
    /\ run[r].pc = "srs"
    /\ IF shapefile.zip = "nosrs"
       THEN Abort(r, SrsError, TRUE)
       ELSE Advance(r, "delete")
    /\ UNCHANGED <<areas, cacheVars, shapefile, nextAreaId, tileVars>>

\* delete() of a set of AggregationArea rows: the foreign key of
\* ValueCountResult.aggregationarea cascades, so the results of the deleted areas
\* go with them.
DeleteWithoutCascade(gone) ==
    /\ areas' = areas \ gone
    /\ results' = results

CascadeDelete(gone) ==
    /\ areas' = areas \ gone
    /\ results' = {x \in results : x.aggregationarea \notin {a.id : a \in gone}}

\* parse(): self.aggregationarea_set.all().delete()
DeleteAreas(r) ==
    /\ run[r].pc = "delete"
    /\ CascadeDelete({a \in areas : a.aggregationlayer = run[r].self.id})
    /\ run' = [run EXCEPT ![r].pc = "loop"]
    /\ last' = [op |-> "step"]
    /\ UNCHANGED <<nextResultId, proc, inputs, layers, shapefile, nextAreaId, tileVars>>

\* parse(): one iteration of the loop over the features. A feature that fails a
\* stage is logged as a warning and skipped; a valid one becomes an area.
FeatureStopAtInvalid(r) ==
    /\ run[r].pc = "loop"
    /\ run[r].i < Len(shapefile.feats)
    /\ LET fid == run[r].i
           kind == shapefile.feats[fid + 1]
       IN IF kind = "ok"
          THEN LET area == SavedArea(
                               [id |-> nextAreaId, aggregationlayer |-> run[r].self.id,
                                name |-> FeatureName(fid), geom |-> FeatureGeom(fid),
                                geom_simplified |-> NullGeom],
                               run[r].self.simplification_tolerance)
               IN /\ areas' = areas \cup {area}
                  /\ nextAreaId' = nextAreaId + 1
                  /\ run' = [run EXCEPT ![r].i = fid + 1, ![r].created = @ \cup {area}]
                  /\ UNCHANGED layers
          ELSE LET s1 == log(run[r].self, WarningText(kind, fid), FALSE)
               IN /\ SaveLayer(s1)
                  /\ run' = [run EXCEPT ![r].self = s1,
                                ![r].i = IF kind = "invalid"
                                         THEN Len(shapefile.feats) ELSE fid + 1]
                  /\ UNCHANGED <<areas, nextAreaId>>
    /\ last' = [op |-> "step"]
    /\ UNCHANGED <<cacheVars, shapefile, tileVars>>

Feature(r) ==
    /\ run[r].pc = "loop"
    /\ run[r].i < Len(shapefile.feats)
    /\ LET fid == run[r].i
           kind == shapefile.feats[fid + 1]
       IN IF kind = "ok"
          THEN LET area == SavedArea(
                               [id |-> nextAreaId, aggregationlayer |-> run[r].self.id,
                                name |-> FeatureName(fid), geom |-> FeatureGeom(fid),
                                geom_simplified |-> NullGeom],
                               run[r].self.simplification_tolerance)
               IN /\ areas' = areas \cup {area}
                  /\ nextAreaId' = nextAreaId + 1
                  /\ run' = [run EXCEPT ![r].i = fid + 1, ![r].created = @ \cup {area}]
                  /\ UNCHANGED layers
          ELSE LET s1 == log(run[r].self, WarningText(kind, fid), FALSE)
               IN /\ SaveLayer(s1)
                  /\ run' = [run EXCEPT ![r].self = s1, ![r].i = fid + 1]
                  /\ UNCHANGED <<areas, nextAreaId>>
    /\ last' = [op |-> "step"]
    /\ UNCHANGED <<cacheVars, shapefile, tileVars>>

\* parse(): after the loop, the 'Finished parsing' entry and shutil.rmtree(tmpdir).
Finish(r) ==
    /\ run[r].pc = "loop"
    /\ run[r].i = Len(shapefile.feats)
    /\ LET s1 == log(run[r].self, FinishedText, FALSE)
       IN /\ SaveLayer(s1)
          /\ run' = [run EXCEPT ![r].self = s1, ![r].pc = "done", ![r].tmpdir = FALSE]
    /\ last' = [op |-> "finished", run |-> r]
    /\ UNCHANGED <<areas, cacheVars, shapefile, nextAreaId, tileVars>>

FixtureResults ==
    { RowOf([NewInstance(BaseRequest) EXCEPT !.value = StrValue(("2" :> 5))], 1, {1, 2}),
      RowOf([NewInstance([BaseRequest EXCEPT !.area = 3]) EXCEPT
                !.value = StrValue(("2" :> 5))], 2, {1, 2}) }

InitIngest ==
    /\ areas = FixtureAreas
    /\ results = FixtureResults
    /\ nextResultId = 3
    /\ proc = [p \in Procs |-> Idle]
    /\ inputs = {BaseRequest}
    /\ layers = FixtureLayers
    /\ shapefile \in Shapefiles
    /\ run = [r \in Runs |-> NoRun]
    /\ nextAreaId = 4
    /\ zoomranges = {}
    /\ nextZoomRangeId = 1
    /\ tilereq = NoTile
    /\ last = [op |-> "init"]

NextIngest ==
    \/ \E r \in Runs : LoadLayer(r)
    \/ \E r \in Runs : StartParse(r)
    \/ \E r \in Runs, ok \in BOOLEAN : Download(r, ok)
    \/ \E r \in Runs : Unzip(r)
    \/ \E r \in Runs : OpenDataSource(r)
    \/ \E r \in Runs : CheckNameColumn(r)
    \/ \E r \in Runs : SetupTransform(r)
    \/ \E r \in Runs : DeleteAreas(r)
    \/ \E r \in Runs : Feature(r)
    \/ \E r \in Runs : Finish(r)

SpecIngest == InitIngest /\ [][NextIngest]_vars


\* -------------------------------------------------------------- vector tiles
\* AggregationLayerGroup rows 1 and 2 exist; a request may name any group id.
GroupIds == {1, 2}
AggLayerIds == {1, 2}
Zooms == 0..MaxZoom
ResponseFormats == {".json", ".pbf", ".png"}

\* An administrator adds a zoom range to a group; unique_together allows one row
\* per (group, layer) and nothing relates min_zoom to max_zoom or to other rows.
AddZoomRange(g, l, mn, mx) ==
    /\ nextZoomRangeId <= MaxZoomRangeId
    /\ ~ \E zr \in zoomranges :
            zr.aggregationlayergroup = g /\ zr.aggregationlayer = l
    /\ zoomranges' = zoomranges \cup
          {[id |-> nextZoomRangeId, aggregationlayergroup |-> g,
            aggregationlayer |-> l, min_zoom |-> mn, max_zoom |-> mx]}
    /\ nextZoomRangeId' = nextZoomRangeId + 1
    /\ last' = [op |-> "step"]
    /\ UNCHANGED <<areas, cacheVars, ingestVars, tilereq>>

\* tile_bounds(x, y, z): the cells of the grid that tile (x, y) of zoom z covers.
tile_bounds(x, y, z) ==
    LET side == Pow2(MaxZoom - z)
    IN {<<i, j>> : i \in (x * side)..(x * side + side - 1),
                   j \in (y * side)..(y * side + side - 1)}

\* The row with the lowest min_zoom, the lowest pk among equals.
LowestStartFirst(rows) ==
    CHOOSE zr \in rows :
        \A other \in rows :
            \/ zr.min_zoom < other.min_zoom
            \/ zr.min_zoom = other.min_zoom /\ zr.id <= other.id

\* queryset.first() of a queryset without ordering: the row with the lowest pk.
First(rows) == CHOOSE zr \in rows : \A other \in rows : zr.id <= other.id

\* grp.aggregationlayerzoomrange_set.filter(min_zoom__lte=z, max_zoom__gte=z)
ZoomRangesStrictlyInside(g, z) ==
    {zr \in zoomranges :
        zr.aggregationlayergroup = g /\ zr.min_zoom < z /\ zr.max_zoom > z}

ZoomRangesFor(g, z) ==
    {zr \in zoomranges :
        zr.aggregationlayergroup = g /\ zr.min_zoom <= z /\ zr.max_zoom >= z}

\* AggregationArea.objects.filter(aggregationlayer=lyr, geom__intersects=bounds)
IntersectingAreasOfAnyLayer(lyr, bounds) ==
    {a \in areas : a.geom \cap bounds # {}}

IntersectingAreas(lyr, bounds) ==
    {a \in areas : a.aggregationlayer = lyr /\ a.geom \cap bounds # {}}

\* The response of VectorTilesView.get
TileResponse(g, x, y, z, fmt) ==
    LET req == [group |-> g, x |-> x, y |-> y, z |-> z, format |-> fmt]
        none == [op |-> "tile", req |-> req, layer |-> 0, features |-> {}]
    IN IF g \notin GroupIds
       THEN none @@ [status |-> 500, error |-> "AggregationLayerGroup.DoesNotExist"]
       ELSE IF ZoomRangesFor(g, z) = {}
       THEN none @@ [status |-> 404, error |-> "No layer found for this zoom level"]
       ELSE LET lyr == First(ZoomRangesFor(g, z)).aggregationlayer
                bounds == tile_bounds(x, y, z)
                result == IntersectingAreas(lyr, bounds)
                features == {[id |-> a.id, name |-> a.name,
                              geometry |-> a.geom \cap bounds] : a \in result}
            IN IF fmt \in {".json", ".pbf"}
               THEN [op |-> "tile", req |-> req, layer |-> lyr, features |-> features,
                     status |-> 200, error |-> ""]
               ELSE [op |-> "tile", req |-> req, layer |-> lyr, features |-> {},
                     status |-> 404, error |-> "Unknown response format " \o fmt]

\* VectorTilesView.get: a read-only request; its response is kept in last.
VectorTilesView_get(g, x, y, z, fmt) ==
    /\ tilereq = [group |-> g, x |-> x, y |-> y, z |-> z, format |-> fmt]
    /\ last' = TileResponse(g, x, y, z, fmt)
    /\ UNCHANGED <<areas, cacheVars, ingestVars, tileVars>>

TileRequests ==
    UNION { {[group |-> g, x |-> x, y |-> y, z |-> z, format |-> fmt] :
                x \in 0..(Pow2(z) - 1), y \in 0..(Pow2(z) - 1)} :
            g \in GroupIds \cup {3}, z \in Zooms, fmt \in ResponseFormats }

InitTiles ==
    /\ areas = FixtureAreas
    /\ results = {}
    /\ nextResultId = 1
    /\ proc = [p \in Procs |-> Idle]
    /\ inputs = {BaseRequest}
    /\ layers = FixtureLayers
    /\ shapefile = <<>>
    /\ run = [r \in Runs |-> NoRun]
    /\ nextAreaId = 4
    /\ zoomranges = {}
    /\ nextZoomRangeId = 1
    /\ tilereq \in TileRequests
    /\ last = [op |-> "init"]

NextTiles ==
    \/ \E g \in GroupIds, l \in AggLayerIds, mn \in Zooms, mx \in Zooms :
          AddZoomRange(g, l, mn, mx)
    \/ VectorTilesView_get(tilereq.group, tilereq.x, tilereq.y, tilereq.z,
                           tilereq.format)

SpecTiles == InitTiles /\ [][NextTiles]_vars


\* ------------------------------------------------- areas and layers, edited
\* Geometries and geom_simplified values a caller may put into an instance.
Geoms == { {<<0, 0>>}, {<<0, 0>>, <<1, 0>>}, {<<0, 0>>, <<2, 2>>} }
GivenSimplified == {NullGeom, [type |-> "MultiPolygon", cells |-> {<<3, 3>>}]}

\* A caller sets geom and geom_simplified of a stored area and saves it. The layer
\* is read through the foreign key at the save.
AggregationArea_save(a, geom, gs) ==
    /\ a \in areas
    /\ LET inst == [a EXCEPT !.geom = geom, !.geom_simplified = gs]
           row == SavedArea(inst, layers[a.aggregationlayer].simplification_tolerance)
       IN /\ areas' = (areas \ {a}) \cup {row}
          /\ last' = [op |-> "area_saved", id |-> a.id, given |-> gs]
    /\ UNCHANGED <<cacheVars, ingestVars, tileVars>>

\* A caller saves a new area. An area without layer (the foreign key is nullable,
\* 0 here) fails in save() when the tolerance is read, and nothing is stored.
AggregationArea_create(l, geom, gs) ==
    /\ nextAreaId <= MaxAreaId
    /\ IF l = 0
       THEN /\ last' = [op |-> "area_save_failed", error |-> "AttributeError"]
            /\ UNCHANGED <<areas, nextAreaId>>
       ELSE LET inst == [id |-> nextAreaId, aggregationlayer |-> l, name |-> "new",
                         geom |-> geom, geom_simplified |-> gs]
            IN /\ areas' = areas \cup
                     {SavedArea(inst, layers[l].simplification_tolerance)}
               /\ nextAreaId' = nextAreaId + 1
               /\ last' = [op |-> "area_saved", id |-> inst.id, given |-> gs]
    /\ UNCHANGED <<cacheVars, layers, shapefile, run, tileVars>>

\* An administrator changes the simplification tolerance of a layer.
SetTolerance(l, tolerance) ==
    /\ layers' = [layers EXCEPT ![l].simplification_tolerance = tolerance]
    /\ last' = [op |-> "step"]
    /\ UNCHANGED <<areas, cacheVars, shapefile, run, nextAreaId, tileVars>>

InitAreas ==
    /\ areas = FixtureAreas
    /\ results = {}
    /\ nextResultId = 1
    /\ proc = [p \in Procs |-> Idle]
    /\ inputs = {BaseRequest}
    /\ IngestIdle
    /\ last = [op |-> "init"]

NextAreas ==
    \/ \E a \in areas, geom \in Geoms, gs \in GivenSimplified :
          AggregationArea_save(a, geom, gs)
    \/ \E l \in {0, 1, 2}, geom \in Geoms, gs \in GivenSimplified :
          AggregationArea_create(l, geom, gs)
    \/ \E l \in {1, 2}, tolerance \in Tolerances : SetTolerance(l, tolerance)

SpecAreas == InitAreas /\ [][NextAreas]_vars


\* ------------------------------------------------- deletions and the cache
\* An AggregationArea is deleted directly.
AggregationArea_delete(a) ==
    /\ a \in areas
    /\ CascadeDelete({a})
    /\ last' = [op |-> "area_deleted", id |-> a.id]
    /\ UNCHANGED <<nextResultId, proc, inputs, ingestVars, tileVars>>

\* An AggregationLayer is deleted: the foreign keys of AggregationArea and of
\* AggregationLayerZoomRange cascade, and the areas take their results along.
AggregationLayer_delete(l) ==
    /\ l \in DOMAIN layers
    /\ CascadeDelete({a \in areas : a.aggregationlayer = l})
    /\ layers' = [k \in DOMAIN layers \ {l} |-> layers[k]]
    /\ zoomranges' = {zr \in zoomranges : zr.aggregationlayer # l}
    /\ last' = [op |-> "layer_deleted", id |-> l]
    /\ UNCHANGED <<nextResultId, proc, inputs, shapefile, run, nextAreaId,
                   nextZoomRangeId, tilereq>>

InitCascade ==
    /\ areas = FixtureAreas
    /\ results = {}
    /\ nextResultId = 1
    /\ proc = [p \in Procs |-> Idle]
    /\ inputs = {BaseRequest, [BaseRequest EXCEPT !.area = 2]}
    /\ IngestIdle
    /\ last = [op |-> "init"]

NextCascade ==
    \/ NextCache
    \/ \E a \in areas : AggregationArea_delete(a)
    \/ \E l \in DOMAIN layers : AggregationLayer_delete(l)

SpecCascade == InitCascade /\ [][NextCascade]_vars


\* ------------------------------------------- ingestion while a layer is edited
\* The parse runs of layer 1 with an administrator changing the layer meanwhile.
NextIngestEdit ==
    \/ NextIngest
    \/ \E tolerance \in Tolerances : SetTolerance(1, tolerance)

SpecIngestEdit == InitIngest /\ [][NextIngestEdit]_vars

\* ================================================================== claims
\* The properties below are checked under SpecCache.

\* The stored rows that carry every fingerprint component of request q, the
\* layer-alias mapping compared pair by pair whatever the order of the pairs.
StoredFor(q) ==
    {r \in results :
        /\ r.aggregationarea = q.area
        /\ r.formula = q.formula
        /\ DOMAIN r.layer_names = {kv[1] : kv \in Range(q.layers)}
        /\ \A kv \in Range(q.layers) : r.layer_names[kv[1]] = kv[2]
        /\ r.zoom = q.zoom
        /\ r.units = q.units
        /\ r.grouping = q.grouping}

\* The layer ids that occur as values of a layer-alias mapping.
LayerIdsOf(ln) == {StrToId(ln[a]) : a \in DOMAIN ln}

\* C1: handling the raster-layer-changed notification for layer L leaves no stored
\* result with L in its dependency set, and leaves every result without L in its
\* dependency set stored and unchanged.
C1_RasterLayerInvalidation ==
    [][\A L \in RasterLayers :
          remove_aggregation_results_after_rasterlayer_change(L) =>
              /\ \A r \in results' : L \notin r.rasterlayers
              /\ \A r \in results : L \notin r.rasterlayers => r \in results']_vars

\* C1 witness: a notification removed a result while a result with other recorded
\* dependencies stayed.
C1_Witness ==
    /\ last.op = "rasterlayer_changed"
    /\ \E r \in results : r.rasterlayers # {} /\ last.who \notin r.rasterlayers

\* C2: a request whose fingerprint (aliases in any order) is stored is answered
\* from the stored row: nothing is computed, no row is created or changed, and the
\* stored value is returned. A request whose fingerprint is not stored starts a
\* computation for exactly that fingerprint, and the row it then writes is added
\* beside the rows already stored.
C2_CacheHitOrMiss ==
    [][/\ \A p \in Procs, q \in inputs :
            Lookup(p, q) =>
                IF StoredFor(q) # {}
                THEN /\ results' = results
                     /\ nextResultId' = nextResultId
                     /\ proc' = proc
                     /\ Cardinality(StoredFor(q)) = 1
                     /\ last'.op = "hit"
                     /\ \A r \in StoredFor(q) : last'.value = r.value
                ELSE /\ proc'[p].pc = "computing"
                     /\ proc'[p].obj.id = 0
                     /\ results' = results
       /\ \A p \in Procs :
            (proc[p].pc = "computing" /\ proc[p].req \in inputs
               /\ proc'[p].pc = "add") =>
                /\ StoredFor(proc[p].req) = {}
                /\ \E r \in results' \ results :
                      /\ results' = results \cup {r}
                      /\ r.id = proc'[p].obj.id
                      /\ r.id \notin {x.id : x \in results}]_vars

\* C2 witness: the request with the aliases in the other order hits the row that
\* the base request wrote.
C2_Witness ==
    /\ last.op = "hit"
    /\ last.req = [BaseRequest EXCEPT !.layers = << <<"b", "2">>, <<"a", "1">> >>]
    /\ nextResultId = 2
    /\ \E p \in Procs : proc[p].pc = "add" /\ proc[p].req = BaseRequest

\* C3 (as claimed): at most one computation is in progress per fingerprint.
C3_SingleComputationPerFingerprint ==
    \A p, q \in Procs :
        (p # q /\ proc[p].pc = "computing" /\ proc[q].pc = "computing")
            => UniqueKey(proc[p].obj) # UniqueKey(proc[q].obj)

\* C4 (as claimed): after every successful save the recorded dependency set is
\* exactly the set of layer ids in the instance's layer-alias mapping.
C4_DependenciesExact ==
    last.op = "saved" =>
        \A r \in results :
            r.id = last.id => r.rasterlayers = LayerIdsOf(last.layer_names)

\* C5: saving legend G leaves no stored result whose grouping is G's identifier,
\* and leaves every result grouped by 'auto', by an inline JSON spec or by another
\* legend's identifier stored and unchanged.
C5_LegendInvalidation ==
    [][\A G \in Legends :
          remove_aggregation_results_after_legend_change(G) =>
              /\ \A r \in results' : StrToId(r.grouping) # G
              /\ \A r \in results :
                    (\/ r.grouping \in {"auto", JsonGrouping}
                     \/ StrToId(r.grouping) \in Legends \ {G}) => r \in results']_vars

\* C5 witness: a legend save removed a result while an 'auto' result stayed.
C5_Witness ==
    /\ last.op = "legend_saved"
    /\ \E r \in results : r.grouping = "auto"

\* The properties below are checked under SpecIngest.

\* The entries a run has written to its instance's parse_log since it was loaded.
OwnEntries(r) ==
    SubSeq(run[r].self.parse_log, run[r].base + 1, Len(run[r].self.parse_log))

\* The run met a file-level failure: the download failed or the file is unusable.
FileFailure(r) == run[r].download = "failed" \/ shapefile.zip # "ok"

ExpectedError(r) ==
    IF run[r].download = "failed" THEN DownloadError
    ELSE CASE shapefile.zip = "badzip" -> ZipError
           [] shapefile.zip = "nolayer" -> LayerError
           [] shapefile.zip = "nonamecol" -> NameColumnError
           [] shapefile.zip = "nosrs" -> SrsError

\* One stamped warning per failing feature, in the order of the features.
ExpectedWarnings(feats) ==
    LET bad == SelectSeq([k \in 1..Len(feats) |-> k], LAMBDA k : feats[k] # "ok")
    IN [j \in 1..Len(bad) |-> Now \o WarningText(feats[bad[j]], bad[j] - 1)]

InRun(r) == run[r].pc \notin {"new", "loaded", "done"}

\* C6 (as claimed, its clause on the area set): when a run that passed the file
\* checks finishes, the areas of the layer are exactly the areas this run created,
\* so none that existed before remains.
C6_AreaSetIsThisRuns ==
    last.op = "finished" =>
        {a \in areas : a.aggregationlayer = 1} = run[last.run].created

\* C7 (as claimed): two runs for the same layer are never both between their start
\* and their end, and once all runs have ended the layer holds the areas of
\* exactly one run.
C7_RunsNeverOverlap ==
    /\ \A r1, r2 \in Runs :
          (r1 # r2 /\ InRun(r1) /\ InRun(r2)) => run[r1].self.id # run[r2].self.id
    /\ (\A r \in Runs : run[r].pc = "done") =>
          \E r \in Runs : {a \in areas : a.aggregationlayer = 1} = run[r].created

\* C8: a run that meets a file-level failure never reaches the delete or the
\* feature loop; when it has ended it has created no area and processed no
\* feature, and the entries it wrote are its 'Started' entry and one stamped
\* 'Error ... aborted parsing' entry, with no 'Finished' entry; that log is what
\* the layer's row holds when the run ends.
C8_FileFailureAborts ==
    /\ \A r \in Runs :
          (run[r].pc # "new" /\ FileFailure(r)) => run[r].pc \notin {"delete", "loop"}
    /\ \A r \in Runs :
          (run[r].pc = "done" /\ FileFailure(r)) =>
              /\ run[r].created = {}
              /\ run[r].i = 0
              /\ OwnEntries(r) = <<Now \o StartedText, Now \o ExpectedError(r)>>
    /\ last.op = "aborted" => layers[1].parse_log = run[last.run].self.parse_log

\* C8 witness: a run ended on the last of the file checks, the missing projection.
C8_Witness ==
    /\ last.op = "aborted"
    /\ shapefile.zip = "nosrs"
    /\ Len(layers[1].parse_log) >= 2

\* C9: a run whose file passed the checks ends having processed every feature:
\* its entries are 'Started', one stamped warning per failing feature in order,
\* and 'Finished'; it created one area for each valid feature and none for the
\* others, wherever the failing features stand.
C9_FeatureFailuresDoNotAbort ==
    \A r \in Runs :
        (run[r].pc = "done" /\ ~FileFailure(r)) =>
            /\ run[r].i = Len(shapefile.feats)
            /\ OwnEntries(r) = <<Now \o StartedText>>
                                  \o ExpectedWarnings(shapefile.feats)
                                  \o <<Now \o FinishedText>>
            /\ \A k \in 1..Len(shapefile.feats) :
                  Cardinality({a \in run[r].created : a.name = FeatureName(k - 1)})
                      = IF shapefile.feats[k] = "ok" THEN 1 ELSE 0
            /\ Cardinality(run[r].created)
                  = Cardinality({k \in 1..Len(shapefile.feats) : shapefile.feats[k] = "ok"})

\* C9 witness: a run finished a file whose first feature is invalid and whose
\* second is valid, and the valid one has its area.
C9_Witness ==
    /\ last.op = "finished"
    /\ shapefile.feats = <<"invalid", "ok">>
    /\ \E a \in areas : a \in run[last.run].created /\ a.name = FeatureName(1)

\* The properties below are checked under SpecTiles.

\* C10: a tile request for an existing group whose zoom lies in no zoom range of
\* that group is answered 404 'No layer found for this zoom level' with nothing
\* rendered; one whose zoom lies in some zoom range of the group resolves to the
\* layer of a zoom range of the group with min_zoom <= z <= max_zoom.
C10_ZoomResolution ==
    (last.op = "tile" /\ last.req.group \in GroupIds) =>
        LET covering == {zr \in zoomranges :
                            /\ zr.aggregationlayergroup = last.req.group
                            /\ last.req.z \in zr.min_zoom..zr.max_zoom}
        IN IF covering = {}
           THEN /\ last.status = 404
                /\ last.error = "No layer found for this zoom level"
                /\ last.features = {}
                /\ last.layer = 0
           ELSE /\ last.error # "No layer found for this zoom level"
                /\ \E zr \in covering : last.layer = zr.aggregationlayer

\* C10 witness: the group has zoom ranges, none covers the requested zoom, and
\* the request was answered 404.
C10_Witness ==
    /\ last.op = "tile"
    /\ last.status = 404
    /\ last.error = "No layer found for this zoom level"
    /\ \E zr \in zoomranges :
          zr.aggregationlayergroup = last.req.group /\ zr.min_zoom <= zr.max_zoom

\* C11 (as claimed): a tile request naming a layer group that does not exist is
\* answered NotFound, with a message other than those of the zoom and format
\* failures, and never ends in an unhandled internal error.
C11_UnknownGroupIsNotFound ==
    (last.op = "tile" /\ last.req.group \notin GroupIds) =>
        /\ last.status = 404
        /\ last.error # "No layer found for this zoom level"
        /\ last.error # "Unknown response format " \o last.req.format

\* C12: a tile request that renders (valid zoom, format .json or .pbf) renders
\* exactly one feature per AggregationArea of the resolved layer whose geometry
\* intersects the tile bounds, none for any other area, and each feature's geometry
\* is the intersection of the area's geometry with the bounds.
C12_TileFeatures ==
    (last.op = "tile" /\ last.status = 200) =>
        LET bounds == tile_bounds(last.req.x, last.req.y, last.req.z)
            hit == {a \in areas :
                       a.aggregationlayer = last.layer /\ a.geom \cap bounds # {}}
        IN /\ {f.id : f \in last.features} = {a.id : a \in hit}
           /\ Cardinality(last.features) = Cardinality(hit)
           /\ \A f \in last.features :
                 /\ f.geometry \subseteq bounds
                 /\ \E a \in hit : /\ a.id = f.id
                                   /\ a.name = f.name
                                   /\ f.geometry = a.geom \cap bounds

\* C12 witness: a rendered tile that shows one area clipped to the bounds and leaves
\* out an area of another layer that intersects the bounds and an area of the
\* resolved layer that does not.
C12_Witness ==
    /\ last.op = "tile"
    /\ last.status = 200
    /\ LET bounds == tile_bounds(last.req.x, last.req.y, last.req.z)
       IN /\ \E f \in last.features, a \in areas :
                a.id = f.id /\ f.geometry # a.geom /\ f.geometry # {}
          /\ \E a \in areas :
                a.aggregationlayer # last.layer /\ a.geom \cap bounds # {}
          /\ \E a \in areas :
                a.aggregationlayer = last.layer /\ a.geom \cap bounds = {}

\* The properties below are checked under SpecCache.

\* C13: a statistics request that lacks 'formula' or 'layers' is rejected with a
\* MissingQueryParameter whose detail names the missing parameter, formula first
\* when both are missing; the rejection leaves every ValueCountResult, the key
\* sequence and every worker's save untouched, and no computation is ever started
\* for such a request.
C13_MissingParameterRejected ==
    [][/\ \A p \in Procs, q \in inputs :
            (StatisticsRequest(p, q) /\ q.given # {"formula", "layers"}) =>
                /\ last'.op = "rejected"
                /\ last'.req = q
                /\ last'.error = "MissingQueryParameter"
                /\ last'.detail = "Missing query parameter: " \o
                      (IF "formula" \notin q.given THEN "formula" ELSE "layers")
                /\ results' = results
                /\ nextResultId' = nextResultId
                /\ proc' = proc
       /\ \A p \in Procs :
            (proc'[p].pc # "idle" /\ proc'[p].req \in inputs) =>
                proc'[p].req.given = {"formula", "layers"}]_vars

\* C13 witness: a request lacking both parameters was rejected while a result
\* written for the base request is stored.
C13_Witness ==
    /\ last.op = "rejected"
    /\ last.req.given = {}
    /\ last.detail = "Missing query parameter: formula"
    /\ results # {}

\* C16 (as claimed, its clause on failure): a save whose mapping references a
\* raster layer that cannot be read does not fail, so no save ever ends with the
\* layer lookup's DoesNotExist.
C16_MissingLayerDoesNotFail ==
    ~ (last.op = "save_failed" /\ last.error = "DoesNotExist")

\* C17: in every reachable state at most one ValueCountResult is stored for each
\* tuple (aggregation area, formula, layer-alias mapping, zoom, units, grouping).
C17_UniqueFingerprint ==
    \A r1, r2 \in results :
        (r1.aggregationarea = r2.aggregationarea /\ r1.formula = r2.formula
           /\ r1.layer_names = r2.layer_names /\ r1.zoom = r2.zoom
           /\ r1.units = r2.units /\ r1.grouping = r2.grouping) => r1 = r2

\* C17 witness: of two interleaved saves of the same tuple the second was refused
\* by the unique constraint while the row of the first is stored.
C17_Witness ==
    /\ last.op = "save_failed"
    /\ last.error = "IntegrityError"
    /\ "constraint" \in DOMAIN last
    /\ last.constraint = "unique_together"
    /\ \E r \in results : UniqueKey(r) = UniqueKey(NewInstance(BaseRequest))

\* The properties below are checked under SpecIngest.

IsPrefix(s, t) == Len(s) <= Len(t) /\ SubSeq(t, 1, Len(s)) = s

\* C18 (as claimed): the stored parse log of a layer is append-only: at every write
\* the log stored before is a prefix of the log stored after.
C18_LogAppendOnly ==
    [][\A l \in DOMAIN layers : IsPrefix(layers[l].parse_log, layers'[l].parse_log)]_vars

\* The properties below are checked under SpecAreas.

\* C19 (as claimed): for every stored area, geom_simplified is the simplification
\* of the area's own geom at its layer's simplification tolerance, as a
\* multipolygon.
C19_SimplifiedAtLayerTolerance ==
    \A a \in areas :
        a.geom_simplified =
            convert_to_multipolygon(
                simplify(a.geom, layers[a.aggregationlayer].simplification_tolerance))

\* C19 (amended): every row of the area table that a step writes has as
\* geom_simplified the simplification of its own geom at the tolerance read from
\* its layer at that save, as a multipolygon, whatever the caller had put in
\* geom_simplified; a row that is not saved keeps geom and geom_simplified.
C19_SimplifiedAtSave ==
    [][\A a \in areas' :
          a \notin areas =>
              /\ a.geom_simplified.type = "MultiPolygon"
              /\ a.geom_simplified =
                    convert_to_multipolygon(
                        simplify(a.geom,
                                 layers[a.aggregationlayer].simplification_tolerance))]_vars

\* C19 witness: an area was saved with a geom_simplified given by the caller, and
\* the stored value is not the given one but the simplification of its geom, which
\* differs from the geom itself.
C19_Witness ==
    /\ last.op = "area_saved"
    /\ last.given # NullGeom
    /\ \E a \in areas :
          /\ a.id = last.id
          /\ a.geom_simplified # last.given
          /\ a.geom_simplified.cells # a.geom
          /\ layers[a.aggregationlayer].simplification_tolerance # DefaultTolerance

\* The properties below are checked under SpecTiles.

\* The zoom ranges of the answered request's group that cover its zoom.
Covering ==
    {zr \in zoomranges : /\ zr.aggregationlayergroup = last.req.group
                         /\ zr.min_zoom <= last.req.z
                         /\ last.req.z <= zr.max_zoom}

\* C20 (as claimed): when several zoom ranges of the group cover the requested
\* zoom, the request resolves to the layer of a covering range with the lowest
\* min_zoom.
C20_LowestStartFirst ==
    (last.op = "tile" /\ last.req.group \in GroupIds /\ Covering # {}) =>
        \E zr \in Covering :
            /\ last.layer = zr.aggregationlayer
            /\ \A other \in Covering : zr.min_zoom <= other.min_zoom

\* C20 (amended): when several zoom ranges of the group cover the requested zoom,
\* the request resolves to the layer of the covering range with the lowest primary
\* key, so the same group, zoom and stored ranges always give the same layer.
C20_LowestKeyFirst ==
    (last.op = "tile" /\ last.req.group \in GroupIds /\ Covering # {}) =>
        \E zr \in Covering :
            /\ last.layer = zr.aggregationlayer
            /\ \A other \in Covering : zr.id <= other.id

\* C20 witness: two ranges cover the zoom, the one created first starts at the
\* higher zoom, and the request resolved to its layer.
C20_Witness ==
    /\ last.op = "tile"
    /\ last.req.group \in GroupIds
    /\ \E zr, other \in Covering :
          /\ zr.id < other.id
          /\ zr.min_zoom > other.min_zoom
          /\ last.layer = zr.aggregationlayer

\* The properties below are checked under SpecCascade.

\* C21: a step that deletes areas deletes every result of those areas, so after
\* every step each stored result refers to an area that exists; and a step in
\* which a stored result disappears is a deletion of its area (directly, with its
\* layer, or by the delete-all of a re-ingestion), a raster-layer invalidation or
\* a legend invalidation.
C21_CascadeAndNothingElse ==
    [][/\ \A x \in results' : x.aggregationarea \in {a.id : a \in areas'}
       /\ \A a \in areas :
            (a.id \notin {b.id : b \in areas'}) =>
                \A x \in results' : x.aggregationarea # a.id
       /\ \A x \in results :
            (x.id \notin {y.id : y \in results'}) =>
                \/ x.aggregationarea \notin {b.id : b \in areas'}
                \/ /\ areas' = areas
                   /\ \E L \in RasterLayers :
                         /\ L \in x.rasterlayers
                         /\ results' = {y \in results : L \notin y.rasterlayers}
                \/ /\ areas' = areas
                   /\ \E G \in Legends :
                         /\ x.grouping = ToString(G)
                         /\ results' = {y \in results : y.grouping # ToString(G)}]_vars

\* C21 witness: layer 1 was deleted while results of its areas were stored, and the
\* results are gone with the areas.
C21_Witness ==
    /\ last.op = "layer_deleted"
    /\ last.id = 1
    /\ nextResultId > 2
    /\ results = {}
    /\ \A a \in areas : a.aggregationlayer # 1

\* The properties below are checked under SpecCache.

\* C22 (as claimed): a raster-layer-changed notification leaves no stale result: a
\* result stored when the notification for layer L is handled was computed before
\* it, so after the notification no stored result has L in its layer-alias mapping,
\* also when the notification arrives between the row write of a save and the
\* recording of its dependencies.
C22_NoStaleResult ==
    [][\A L \in RasterLayers :
          remove_aggregation_results_after_rasterlayer_change(L) =>
              \A x \in results' : L \notin LayerIdsOf(x.layer_names)]_vars

\* The properties below are checked under SpecIngest.

\* The positions of parse() before its delete of the previous areas.
BeforeDelete == {"loaded", "download", "unzip", "datasource", "namecolumn", "srs"}

\* C23: a run reaches the delete of the previous areas only when the download,
\* unzip, datasource, name-column and projection checks have all passed; every
\* step a run takes before that, its abort included, leaves the areas and the
\* results unchanged, and a run aborts from no later position.
C23_AbortLeavesAreas ==
    [][\A r \in Runs :
          /\ (run'[r].pc \in {"delete", "loop"}) => ~ FileFailure(r)'
          /\ (run[r].pc \in BeforeDelete /\ run'[r] # run[r]) =>
                (areas' = areas /\ results' = results)
          /\ (last'.op = "aborted" /\ last'.run = r /\ run'[r] # run[r]) =>
                run[r].pc \in BeforeDelete]_vars

\* C23 witness: a run aborted on a file-level failure and the fixture areas of its
\* layer and their results are all stored.
C23_Witness ==
    /\ last.op = "aborted"
    /\ FileFailure(last.run)
    /\ shapefile.zip = "nosrs"
    /\ areas = FixtureAreas
    /\ results = FixtureResults

\* C24 (as claimed): a run that has ended, by an abort or by completion, has
\* removed its temporary directory.
C24_TmpdirRemoved ==
    \A r \in Runs : run[r].pc = "done" => run[r].tmpdir = FALSE

\* The properties below are checked under SpecIngestEdit.

\* C25 (as claimed): a step of an ingestion run, and so every log call it makes,
\* leaves the stored name column and simplification tolerance of every layer as
\* they were, also when they were changed after the run loaded its copy.
C25_LogChangesOnlyLog ==
    [][\A l \in DOMAIN layers :
          (\E r \in Runs : run'[r] # run[r]) =>
              /\ layers'[l].id = layers[l].id
              /\ layers'[l].name_column = layers[l].name_column
              /\ layers'[l].simplification_tolerance =
                    layers[l].simplification_tolerance]_vars

====
